---- MODULE Spec2Model ----
(***************************************************************************)
(* Model of the htmx "server-commands" extension                           *)
(* (src/static/server-commands.js): transformResponse, the per-command     *)
(* routine processCommandFromElement, validateCommandElement,              *)
(* handleTriggerAttribute and handleLocationAttribute.                     *)
(*                                                                         *)
(* A string is a sequence of tokens (one-character strings for the plain   *)
(* trigger values, one token per JSON lexeme for the JSON ones, so that    *)
(* split(',') and trim() work on what JSON.parse reads).  A fragment       *)
(* is a sequence of nodes in document order, each with its tag, the index  *)
(* of its parent (0 is the fragment root) and its attributes.  Everything  *)
(* the code does to a collaborator (an event, a history call, a swap, a    *)
(* navigation, a console warning, the value returned) is appended to log.  *)
(***************************************************************************)
EXTENDS Integers, Sequences, FiniteSets, TLC

VARIABLES
    text,       \* the argument of transformResponse: [nodes, canonical]
    pc,         \* where transformResponse is: "call", "loop", "strip", "returned"
    fragment,   \* parentNode of every node of the parsed fragment
    topLevel,   \* topLevelCommandElements, the array the async loop walks
    idx,        \* position of the async loop in topLevel
    cpc,        \* where processCommandFromElement is for topLevel[idx]
    swapJobs,   \* swapJobs of the command being processed
    exc,        \* the exception on its way to the catch block
    pending,    \* callbacks the collaborators still owe: ajax .then, swap callbacks
    returned,   \* what transformResponse returned
    log         \* every observable effect, in order

vars == <<text, pc, fragment, topLevel, idx, cpc, swapJobs, exc, pending, returned, log>>

----------------------------------------------------------------------------
(* Bounds of the model *)

\* nodes in one fragment
MaxNodes == 3
\* attributes on the tag of a one-command fragment
MaxAttrs == 3
\* characters in the trigger value of a trigger-only fragment
MaxTrigLen == 3
\* entries in a trigger value that is a JSON object
MaxEntries == 2

----------------------------------------------------------------------------
(* Strings *)

\* the characters trigger values are made of
TrigChars == {"a", "1", " ", ","}

RECURSIVE StringsUpTo(_)
StringsUpTo(n) ==
    IF n = 0 THEN {<<>>}
    ELSE LET shorter == StringsUpTo(n - 1)
         IN  shorter \cup {Append(s, c) : s \in {t \in shorter : Len(t) = n - 1}, c \in TrigChars}

IsSpace(c) == c = " "

\* String.prototype.trim
RECURSIVE TrimLeft(_)
TrimLeft(s) == IF s # <<>> /\ IsSpace(Head(s)) THEN TrimLeft(Tail(s)) ELSE s

RECURSIVE TrimRight(_)
TrimRight(s) ==
    IF s # <<>> /\ IsSpace(s[Len(s)]) THEN TrimRight(SubSeq(s, 1, Len(s) - 1)) ELSE s

\* a variant that trims the start only
TrimStartOnly(s) == TrimLeft(s)

Trim(s) == TrimRight(TrimLeft(s))

\* String.prototype.split(','): the segments between the commas, empty ones kept
RECURSIVE SplitFrom(_, _, _)
SplitFrom(s, i, cur) ==
    IF i > Len(s) THEN <<cur>>
    ELSE IF s[i] = "," THEN <<cur>> \o SplitFrom(s, i + 1, <<>>)
    ELSE SplitFrom(s, i + 1, Append(cur, s[i]))

Split(s) == SplitFrom(s, 1, <<>>)

\* JSON.parse of a trigger value.  Over TrigChars the only JSON texts are the
\* numbers: optional blanks, digits, optional blanks.  A number has no
\* enumerable property, so the for..in loop over it has no entry.
IsJSONNumber(s) ==
    LET t == Trim(s) IN t # <<>> /\ \A i \in 1..Len(t) : t[i] = "1"

\* The JSON texts with structure are written with one token per lexeme: the
\* punctuation { } : , and the string lexemes below (none contains a comma, so
\* split(',') cuts such a text exactly at its "," tokens).
JSONStrings ==
    {"\"e\"", "\"f\"", "\"g\"", "\"a\"", "\"target\"", "\"#x\"", "\"#[\"", "\"\""}

\* the string a string lexeme denotes
Unquote(tok) ==
    CASE tok = "\"e\"" -> "e"
      [] tok = "\"f\"" -> "f"
      [] tok = "\"g\"" -> "g"
      [] tok = "\"a\"" -> "a"
      [] tok = "\"target\"" -> "target"
      [] tok = "\"#x\"" -> "#x"
      [] tok = "\"#[\"" -> "#["
      [] OTHER -> ""

\* a parsed JSON value: a number or string with its text, or an object with
\* its members in insertion order
JSONScalar(type, txt) == [type |-> type, text |-> txt, members |-> <<>>]
JSONObject(members) == [type |-> "object", text |-> "", members |-> members]
ParseFailure == [ok |-> FALSE, next |-> 0, value |-> JSONScalar("undefined", "")]

\* the value that starts at token i of s, and the index after it
RECURSIVE ParseValue(_, _)
RECURSIVE ParseMembers(_, _, _)
ParseValue(s, i) ==
    IF i > Len(s) THEN ParseFailure
    ELSE IF s[i] = "1" THEN [ok |-> TRUE, next |-> i + 1, value |-> JSONScalar("number", "1")]
    ELSE IF s[i] \in JSONStrings
         THEN [ok |-> TRUE, next |-> i + 1, value |-> JSONScalar("string", Unquote(s[i]))]
    ELSE IF s[i] = "{"
         THEN IF i + 1 <= Len(s) /\ s[i + 1] = "}"
              THEN [ok |-> TRUE, next |-> i + 2, value |-> JSONObject(<<>>)]
              ELSE ParseMembers(s, i + 1, <<>>)
    ELSE ParseFailure

\* the members of an object from token i on, after the members acc; a key that
\* comes again replaces the earlier value and keeps the earlier position
ParseMembers(s, i, acc) ==
    IF i + 2 <= Len(s) /\ s[i] \in JSONStrings /\ s[i + 1] = ":"
    THEN LET v    == ParseValue(s, i + 2)
             key  == Unquote(s[i])
             seen == {k \in 1..Len(acc) : acc[k].key = key}
             more == IF seen = {} THEN Append(acc, [key |-> key, value |-> v.value])
                     ELSE [k \in 1..Len(acc) |->
                             IF k \in seen THEN [key |-> key, value |-> v.value] ELSE acc[k]]
         IN  IF ~v.ok \/ v.next > Len(s) THEN ParseFailure
             ELSE IF s[v.next] = "," THEN ParseMembers(s, v.next + 1, more)
             ELSE IF s[v.next] = "}"
                  THEN [ok |-> TRUE, next |-> v.next + 1, value |-> JSONObject(more)]
             ELSE ParseFailure
    ELSE ParseFailure

\* JSON.parse: whether the text parses, and the entries the for..in loop over
\* the parsed value visits (a number has none)
JSONParse(s) ==
    LET v == ParseValue(s, 1)
    IN  IF IsJSONNumber(s) THEN [ok |-> TRUE, entries |-> <<>>]
        ELSE IF v.ok /\ v.next = Len(s) + 1 /\ v.value.type = "object"
             THEN [ok |-> TRUE, entries |-> v.value.members]
        ELSE [ok |-> FALSE, entries |-> <<>>]

\* the details an entry of a JSON trigger value carries: a number, an object
\* without target, with a target that is a selector (alone or beside another
\* key), with a target the selector engine rejects, with an empty target
DetailTexts ==
    {<<"1">>,
     <<"{", "\"a\"", ":", "1", "}">>,
     <<"{", "\"target\"", ":", "\"#x\"", "}">>,
     <<"{", "\"target\"", ":", "\"#x\"", ",", "\"a\"", ":", "1", "}">>,
     <<"{", "\"target\"", ":", "\"#[\"", "}">>,
     <<"{", "\"target\"", ":", "\"\"", "}">>}

\* one "name": detail member
MemberTexts == {<<k, ":">> \o d : k \in {"\"e\"", "\"f\""}, d \in DetailTexts}

\* n members with commas between them
RECURSIVE MemberLists(_)
MemberLists(n) ==
    IF n = 1 THEN MemberTexts
    ELSE {l \o <<",">> \o m : l \in MemberLists(n - 1), m \in MemberTexts}

\* the JSON objects with at most n entries
RECURSIVE ObjectTexts(_)
ObjectTexts(n) ==
    IF n = 0 THEN {<<"{", "}">>}
    ELSE ObjectTexts(n - 1) \cup {<<"{">> \o l \o <<"}">> : l \in MemberLists(n)}

\* texts that start like an object and are not JSON: no closing brace, a
\* trailing comma
MalformedObjects ==
    {<<"{", "\"e\"", ":", "1">>, <<"{", "\"e\"", ":", "1", ",", "}">>}

----------------------------------------------------------------------------
(* Attribute Model *)

VALID_COMMAND_ATTRIBUTES ==
    {"target", "swap", "select", "redirect", "refresh", "location", "push-url",
     "replace-url", "trigger", "trigger-after-swap", "trigger-after-settle"}

\* every attribute name of the model, in a fixed order (used to enumerate tags):
\* the recognized ones, then two names the extension does not know
AttrOrder ==
    <<"target", "swap", "select", "redirect", "refresh", "location", "push-url",
      "replace-url", "trigger", "trigger-after-swap", "trigger-after-settle",
      "id", "hx-get">>

\* location='{"path":"/p"}', a JSON object text
LocationJSON == <<"{", "\"path\":\"/p\"", "}">>
\* location='{bad', which starts like JSON and is none
LocationMalformed == <<"{", "bad">>
\* a selector document.querySelector rejects with a SyntaxError
InvalidSelector == <<"#[">>
\* a URL of another origin: history.pushState rejects it with a SecurityError
CrossOriginUrl == <<"http://other/">>

\* the values each attribute takes in the model
AttrValues(a) ==
    CASE a = "target"   -> {<<"#a">>, <<>>, InvalidSelector}
      [] a = "refresh"  -> {<<>>, <<"false">>}
      [] a = "location" -> {<<"/p">>, LocationJSON, LocationMalformed}
      [] a = "push-url" -> {<<"/u">>, CrossOriginUrl}
      [] a = "redirect" -> {<<"/new">>}
      [] a = "swap"     -> {<<"innerHTML">>}
      [] a \in {"trigger", "trigger-after-swap", "trigger-after-settle"} -> {<<"a">>}
      [] OTHER          -> {<<"x">>}

\* a tag without attributes
NoAttrs == [a \in {} |-> <<>>]

\* every attribute set over AttrOrder[i..] with at most k attributes
RECURSIVE TagsOver(_, _)
TagsOver(i, k) ==
    IF i > Len(AttrOrder) \/ k = 0 THEN {NoAttrs}
    ELSE TagsOver(i + 1, k)
         \cup {(AttrOrder[i] :> v) @@ f : v \in AttrValues(AttrOrder[i]), f \in TagsOver(i + 1, k - 1)}

\* element.hasAttribute / element.getAttribute
HasAttribute(attrs, a) == a \in DOMAIN attrs
GetAttribute(attrs, a) == attrs[a]

\* api.getAttributeValue: the raw value, or null (here <<>>) when absent; the ||
\* of the callers cannot tell an absent attribute from an empty one
GetAttributeValue(attrs, a) == IF HasAttribute(attrs, a) THEN attrs[a] ELSE <<>>

----------------------------------------------------------------------------
(* Fragments *)

\* parentNode of an element that was removed from its parent
Detached == -1

\* whether node n lies below root in the tree given by the parentNode map par
RECURSIVE IsBelow(_, _, _)
IsBelow(n, root, par) ==
    IF n <= 0 THEN FALSE
    ELSE par[n] = root \/ IsBelow(par[n], root, par)

\* the attribute sets of the command tags of the many-node fragments: a swap
\* into a target, a tag with an unknown attribute only, and a trigger followed
\* by a location that is malformed JSON
BatchTags ==
    {("target" :> <<"#a">>), ("id" :> <<"x">>),
     ("trigger" :> <<"a">>) @@ ("location" :> LocationMalformed)}

\* the attribute sets of commands that leave work with a collaborator: a location
\* whose fetch completes later or never, a swap with both completion callbacks, a
\* push-url
AsyncTags ==
    {("location" :> <<"/p">>),
     ("target" :> <<"#a">>) @@ ("trigger-after-swap" :> <<"a">>) @@ ("trigger-after-settle" :> <<"a">>),
     ("push-url" :> <<"/u">>)}

\* two top-level commands, the first of which leaves work with a collaborator
TwoCommands ==
    {<<[tag |-> "htmx", parent |-> 0, attrs |-> a], [tag |-> "htmx", parent |-> 0, attrs |-> b]>> :
        a \in AsyncTags, b \in AsyncTags \cup BatchTags}

\* the nodes that may follow the nodes f in document order: a child of the
\* root, or of the last node, or of one of its ancestors
NextNodes(f) ==
    LET n    == Len(f)
        par  == [i \in 1..n |-> f[i].parent]
        open == IF n = 0 THEN {0} ELSE {0, n} \cup {i \in 1..n : IsBelow(n, i, par)}
    IN  {[tag |-> "div", parent |-> q, attrs |-> NoAttrs] : q \in open}
        \cup {[tag |-> "htmx", parent |-> q, attrs |-> a] : q \in open, a \in BatchTags}

\* the node sequences with at most n nodes
RECURSIVE Trees(_)
Trees(n) ==
    IF n = 0 THEN {<<>>}
    ELSE LET smaller == Trees(n - 1)
         IN  smaller
             \cup UNION {{Append(f, x) : x \in NextNodes(f)} : f \in {g \in smaller : Len(g) = n - 1}}

OneCommand(attrs) == <<[tag |-> "htmx", parent |-> 0, attrs |-> attrs]>>

\* a text is its markup (the nodes) and whether it is spelled the way innerHTML
\* spells markup (canonical) or in another way (quotes, case, omitted end tags)
Texts(trees) ==
    {[nodes |-> f, canonical |-> c] : f \in trees, c \in BOOLEAN} \ {[nodes |-> <<>>, canonical |-> FALSE]}

\* the fragment texts transformResponse is called with: the trees (each in the
\* spelling of innerHTML, the smaller ones in another spelling too), the batches
\* of two commands, the one-command tags, the tags with a trigger only
Fragments ==
    Texts(Trees(MaxNodes - 1))
    \cup {[nodes |-> f, canonical |-> TRUE] : f \in Trees(MaxNodes)}
    \cup {[nodes |-> f, canonical |-> TRUE] : f \in TwoCommands}
    \cup {[nodes |-> OneCommand(a), canonical |-> TRUE] : a \in TagsOver(1, MaxAttrs)}
    \cup {[nodes |-> OneCommand("trigger" :> v), canonical |-> TRUE] :
             v \in StringsUpTo(MaxTrigLen) \cup ObjectTexts(MaxEntries) \cup MalformedObjects}

\* api.makeFragment: the parentNode of every node of the text
MakeFragment(t) == [i \in 1..Len(t.nodes) |-> t.nodes[i].parent]

\* the members of the set of nodes S, in document order
RECURSIVE InOrder(_, _, _)
InOrder(S, i, n) ==
    IF i > n THEN <<>>
    ELSE (IF i \in S THEN <<i>> ELSE <<>>) \o InOrder(S, i + 1, n)

\* fragment.querySelectorAll('htmx'), in document order
QuerySelectorAll(t) ==
    InOrder({i \in 1..Len(t.nodes) : t.nodes[i].tag = "htmx"}, 1, Len(t.nodes))

\* a variant without the filter: every command tag is processed
AllCommandElements(all, frag) == all

\* a variant that keeps the top-level tags and walks them last to first
RECURSIVE Reversed(_)
Reversed(q) == IF q = <<>> THEN <<>> ELSE Append(Reversed(Tail(q)), Head(q))

TopLevelLastFirst(all, frag) ==
    Reversed(InOrder({all[j] : j \in {k \in 1..Len(all) : frag[all[k]] = 0}}, 1, Len(frag)))

\* the filter of transformResponse: el.parentNode === fragment
TopLevelCommandElements(all, frag) ==
    InOrder({all[j] : j \in {k \in 1..Len(all) : frag[all[k]] = 0}}, 1, Len(frag))

\* a variant that removes the top-level command tags only
RemoveTopLevelOnly(all, frag) ==
    [i \in DOMAIN frag |->
        IF (\E j \in 1..Len(all) : all[j] = i) /\ frag[i] = 0 THEN Detached ELSE frag[i]]

\* allCommandElements.forEach(el => el.remove())
RemoveAll(all, frag) ==
    [i \in DOMAIN frag |-> IF \E j \in 1..Len(all) : all[j] = i THEN Detached ELSE frag[i]]

\* container.innerHTML: the nodes still below the fragment root, spelled canonically
Serialize(frag) ==
    [kept |-> {i \in DOMAIN frag : IsBelow(i, 0, frag)}, canonical |-> TRUE]

\* the text as it is
Unchanged(t) == [kept |-> 1..Len(t.nodes), canonical |-> t.canonical]

\* commandElt.innerHTML: the nodes now below the command element
InnerHTML(cmd, frag) == {i \in DOMAIN frag : IsBelow(i, cmd, frag)}

----------------------------------------------------------------------------
(* Effects on the collaborators *)

\* one observable effect: its kind, the command element it comes from (0: none),
\* the element it is dispatched on, its argument, the event detail, for a swap
\* the content handed over, and whether it happens in a later task (a callback
\* of a collaborator) instead of on the stack of processCommandFromElement
Effect(kind, cmd, on, arg) ==
    [kind |-> kind, cmd |-> cmd, on |-> on, arg |-> arg, detail |-> <<>>, content |-> {},
     late |-> FALSE]

\* the effects es, marked as happening in a later task
Late(es) == [i \in 1..Len(es) |-> [es[i] EXCEPT !.late = TRUE]]

NoException == [kind |-> "none", errors |-> <<>>]

\* the kinds of effect a command can have besides its before, after and error events
DirectiveKinds ==
    {"trigger", "ajax", "assign", "reload", "save", "push", "replace", "beforeSwap",
     "swap", "trigger-after-swap", "trigger-after-settle"}

----------------------------------------------------------------------------
(* Command Validator *)

\* a variant without the check of swap or select against target
ValidateAttributeNamesOnly(attrs) ==
    LET present == DOMAIN attrs
        unknown == present \ VALID_COMMAND_ATTRIBUTES
    IN  IF present \cap VALID_COMMAND_ATTRIBUTES = {}
        THEN [kind |-> "NoCommandAttribute", errors |-> <<>>]
        ELSE IF unknown # {}
        THEN [kind |-> "ValidationErrors", errors |-> [i \in 1..Cardinality(unknown) |-> "UnknownAttribute"]]
        ELSE NoException

\* a variant that throws at the first violation it finds
ValidateFirstErrorOnly(attrs) ==
    LET present == DOMAIN attrs
        unknown == present \ VALID_COMMAND_ATTRIBUTES
    IN  IF present \cap VALID_COMMAND_ATTRIBUTES = {}
        THEN [kind |-> "NoCommandAttribute", errors |-> <<>>]
        ELSE IF unknown # {}
        THEN [kind |-> "ValidationErrors", errors |-> <<"UnknownAttribute">>]
        ELSE IF ({"swap", "select"} \cap present # {}) /\ "target" \notin present
        THEN [kind |-> "ValidationErrors", errors |-> <<"SwapWithoutTarget">>]
        ELSE NoException

\* the error validateCommandElement throws for a tag, NoException when it returns
ValidateCommandElement(attrs) ==
    LET present == DOMAIN attrs
        unknown == InOrder({i \in 1..Len(AttrOrder) :
                              AttrOrder[i] \in present /\ AttrOrder[i] \notin VALID_COMMAND_ATTRIBUTES},
                           1, Len(AttrOrder))
        errors  == [i \in 1..Len(unknown) |-> "UnknownAttribute"]
                   \o (IF ({"swap", "select"} \cap present # {}) /\ "target" \notin present
                       THEN <<"SwapWithoutTarget">> ELSE <<>>)
    IN  IF present \cap VALID_COMMAND_ATTRIBUTES = {}
        THEN [kind |-> "NoCommandAttribute", errors |-> <<>>]
        ELSE IF Len(errors) > 0
        THEN [kind |-> "ValidationErrors", errors |-> errors]
        ELSE NoException

----------------------------------------------------------------------------
(* Trigger Dispatcher *)

\* the catch branch: one event per segment of the comma split, on document.body,
\* named by the trimmed segment, without detail
TriggerFallback(value, via, cmd) ==
    LET names == Split(value)
    IN  [i \in 1..Len(names) |-> Effect(via, cmd, "body", Trim(names[i]))]

\* a value the test of line 238 takes for true
Truthy(v) ==
    \/ v.type = "object"
    \/ v.type = "string" /\ v.text # ""
    \/ v.type = "number" /\ v.text # "0"

\* the detail as the listeners see it: nothing for undefined, a number, or the
\* keys of an object between braces
DetailOf(v, dropped) ==
    IF v.type = "object"
    THEN <<"{">>
         \o [k \in 1..Len(SelectSeq(v.members, LAMBDA m : m.key \notin dropped)) |->
               SelectSeq(v.members, LAMBDA m : m.key \notin dropped)[k].key]
         \o <<"}">>
    ELSE <<v.text>>

\* lines 234-248, from entry i on: the events and warnings of the entries, up
\* to the entry whose htmx.find throws (a selector the engine rejects, or a
\* target that is no string); found tells whether a selector matches an element
RECURSIVE TriggerEntries(_, _, _, _, _)
TriggerEntries(entries, i, via, cmd, found) ==
    IF i > Len(entries) THEN [effects |-> <<>>, threw |-> FALSE]
    ELSE LET detail  == entries[i].value
             targets == SelectSeq(detail.members, LAMBDA m : m.key = "target")
             taken   == detail.type = "object" /\ targets # <<>> /\ Truthy(targets[1].value)
             sel     == targets[1].value
             throws  == taken /\ (sel.type # "string" \/ <<sel.text>> = InvalidSelector)
             event   == [Effect(via, cmd, IF taken /\ found THEN sel.text ELSE "body",
                                <<entries[i].key>>)
                           EXCEPT !.detail = DetailOf(detail, IF taken THEN {"target"} ELSE {})]
             warning == IF taken /\ ~found
                        THEN <<Effect("warnTarget", cmd, "console", <<sel.text>>)>> ELSE <<>>
             rest    == TriggerEntries(entries, i + 1, via, cmd, found)
         IN  IF throws THEN [effects |-> <<>>, threw |-> TRUE]
             ELSE [effects |-> warning \o <<event>> \o rest.effects, threw |-> rest.threw]

\* the events handleTriggerAttribute dispatches for a value: those of the try
\* block and, when JSON.parse or anything after it threw, those of the catch
HandleTriggerAttribute(value, via, cmd, found) ==
    LET parsed == JSONParse(value)
        tried  == TriggerEntries(parsed.entries, 1, via, cmd, found)
    IN  IF ~parsed.ok THEN TriggerFallback(value, via, cmd)
        ELSE IF tried.threw THEN tried.effects \o TriggerFallback(value, via, cmd)
        ELSE tried.effects

----------------------------------------------------------------------------
(* Navigation Handler *)

\* redirectPath.indexOf('{') === 0
StartsWithBrace(value) == value # <<>> /\ value[1] = "{"

\* what handleLocationAttribute does up to the save: the path it will fetch, or
\* the SyntaxError of JSON.parse
ParseLocation(value) ==
    IF StartsWithBrace(value)
    THEN IF value = LocationJSON
         THEN [throws |-> FALSE, path |-> <<"/p">>]
         ELSE [throws |-> TRUE, path |-> <<>>]
    ELSE [throws |-> FALSE, path |-> value]

----------------------------------------------------------------------------
(* Response Preprocessor: transformResponse *)

Init ==
    /\ text \in Fragments
    /\ pc = "call"
    /\ fragment = <<>>
    /\ topLevel = <<>>
    /\ idx = 0
    /\ cpc = "none"
    /\ swapJobs = <<>>
    /\ exc = NoException
    /\ pending = {}
    /\ returned = [kept |-> {}, canonical |-> TRUE]
    /\ log = <<>>

\* the command element the loop is at, and its attributes
Cmd == topLevel[idx]
Attrs == text.nodes[Cmd].attrs

\* a variant that takes the fast path for the empty text only
NothingToDoWhenEmpty(t) == t.nodes = <<>>

\* the test of the fast path: no text, or no <htmx> tag in the fragment
NothingToDo(t) == t.nodes = <<>> \/ QuerySelectorAll(t) = <<>>

\* lines 34-39: the fast path returns the text as it came
ReturnEarly ==
    /\ pc = "call"
    /\ NothingToDo(text)
    /\ returned' = Unchanged(text)
    /\ log' = Append(log, Effect("return", 0, "", <<>>))
    /\ pc' = "returned"
    /\ UNCHANGED <<text, fragment, topLevel, idx, cpc, swapJobs, exc, pending>>

\* lines 36-62: parse, collect the command tags, warn about nested ones, and
\* start the async loop, which runs on the caller's stack up to its first await
StartLoop ==
    /\ pc = "call"
    /\ ~NothingToDo(text)
    /\ LET frag == MakeFragment(text)
           all  == QuerySelectorAll(text)
           top  == TopLevelCommandElements(all, frag)
       IN  /\ fragment' = frag
           /\ topLevel' = top
           /\ log' = IF Len(all) > Len(top)
                     THEN Append(log, Effect("warn", 0, "", <<"nested">>))
                     ELSE log
           /\ idx' = IF top = <<>> THEN 0 ELSE 1
           /\ cpc' = IF top = <<>> THEN "none" ELSE "before"
    /\ pc' = "loop"
    /\ UNCHANGED <<text, swapJobs, exc, pending, returned>>

\* lines 64-71, reached when the loop is suspended at its first await (or is
\* over, without a top-level command): remove every <htmx> tag, serialize, return
StripAndReturn ==
    /\ pc = "loop"
    /\ cpc \in {"done", "none"}
    /\ fragment' = RemoveAll(QuerySelectorAll(text), fragment)
    /\ returned' = Serialize(fragment')
    /\ log' = Append(log, Effect("return", 0, "", <<>>))
    /\ pc' = "returned"
    /\ UNCHANGED <<text, topLevel, idx, cpc, swapJobs, exc, pending>>

\* a variant whose await also waits for the fetches and the swap callbacks the
\* command left behind
ResumeLoopWhenSettled ==
    /\ pc = "returned"
    /\ cpc = "done"
    /\ pending = {}
    /\ idx' = idx + 1
    /\ cpc' = IF idx < Len(topLevel) THEN "before" ELSE "none"
    /\ swapJobs' = <<>>
    /\ UNCHANGED <<text, pc, fragment, topLevel, exc, pending, returned, log>>

\* lines 59-61: the await is over (a microtask, after the caller's stack is
\* empty) and the loop goes to the next element, or ends
ResumeLoop ==
    /\ pc = "returned"
    /\ cpc = "done"
    /\ idx' = idx + 1
    /\ cpc' = IF idx < Len(topLevel) THEN "before" ELSE "none"
    /\ swapJobs' = <<>>
    /\ UNCHANGED <<text, pc, fragment, topLevel, exc, pending, returned, log>>

----------------------------------------------------------------------------
(* Command Executor: processCommandFromElement, one action per step *)

\* the variables no step of a command changes
Frame == UNCHANGED <<text, pc, fragment, topLevel, idx, returned>>

\* throw: the rest of the try block is skipped
Throw(e) == exc' = e /\ cpc' = "catch"

\* a variant that goes on to validation although a listener canceled the event
BeforeCommandIgnoresCancel ==
    /\ cpc = "before"
    /\ \E canceled \in BOOLEAN :
          /\ cpc' = "validate"
          /\ log' = Append(log, Effect("beforeServerCommand", Cmd, "context",
                                       IF canceled THEN <<"canceled">> ELSE <<>>))
    /\ UNCHANGED <<swapJobs, exc, pending>>
    /\ Frame

\* lines 84-89: the cancelable before event; a listener may cancel it
BeforeCommand ==
    /\ cpc = "before"
    /\ \E canceled \in BOOLEAN :
          /\ cpc' = IF canceled THEN "done" ELSE "validate"
          /\ log' = Append(log, Effect("beforeServerCommand", Cmd, "context",
                                       IF canceled THEN <<"canceled">> ELSE <<>>))
    /\ UNCHANGED <<swapJobs, exc, pending>>
    /\ Frame

\* line 92
Validate ==
    /\ cpc = "validate"
    /\ LET e == ValidateCommandElement(Attrs)
       IN  IF e # NoException THEN Throw(e)
           ELSE cpc' = "gather" /\ exc' = exc
    /\ UNCHANGED <<swapJobs, pending, log>>
    /\ Frame

\* lines 95-109: look the target up and build the swap job
BuildSwapJob ==
    /\ cpc = "gather"
    /\ LET selector == GetAttributeValue(Attrs, "target")
       IN  IF selector = <<>>
           THEN cpc' = "trigger" /\ UNCHANGED <<swapJobs, exc, log>>
           ELSE IF selector = InvalidSelector
           THEN Throw([kind |-> "SyntaxError", errors |-> <<>>]) /\ UNCHANGED <<swapJobs, log>>
           ELSE \E found \in BOOLEAN :
                  /\ cpc' = "trigger"
                  /\ exc' = exc
                  /\ IF found
                     THEN /\ swapJobs' = <<[targetEl |-> "target", content |-> InnerHTML(Cmd, fragment)]>>
                          /\ log' = log
                     ELSE /\ swapJobs' = swapJobs
                          /\ log' = Append(log, Effect("targetError", Cmd, "context", selector))
    /\ UNCHANGED pending
    /\ Frame

\* lines 113-115
TriggerDirective ==
    /\ cpc = "trigger"
    /\ \E found \in BOOLEAN :
          log' = IF HasAttribute(Attrs, "trigger")
                 THEN log \o HandleTriggerAttribute(GetAttribute(Attrs, "trigger"), "trigger", Cmd, found)
                 ELSE log
    /\ cpc' = "location"
    /\ UNCHANGED <<swapJobs, exc, pending>>
    /\ Frame

\* a variant that saves the page before it parses the value
LocationSavesBeforeParsing ==
    /\ cpc = "location"
    /\ IF ~HasAttribute(Attrs, "location")
       THEN cpc' = "redirect" /\ UNCHANGED <<exc, pending, log>>
       ELSE LET loc == ParseLocation(GetAttribute(Attrs, "location"))
            IN  IF loc.throws
                THEN /\ Throw([kind |-> "SyntaxError", errors |-> <<>>])
                     /\ log' = Append(log, Effect("save", Cmd, "", <<>>))
                     /\ pending' = pending
                ELSE /\ log' = log \o <<Effect("save", Cmd, "", <<>>), Effect("ajax", Cmd, "body", loc.path)>>
                     /\ pending' = pending \cup {[kind |-> "ajax", cmd |-> Cmd, arg |-> loc.path]}
                     /\ cpc' = "redirect"
                     /\ exc' = exc
    /\ UNCHANGED swapJobs
    /\ Frame

\* lines 116-118 and handleLocationAttribute: parse, save the page, start the
\* fetch whose .then pushes the path
LocationDirective ==
    /\ cpc = "location"
    /\ IF ~HasAttribute(Attrs, "location")
       THEN cpc' = "redirect" /\ UNCHANGED <<exc, pending, log>>
       ELSE LET loc == ParseLocation(GetAttribute(Attrs, "location"))
            IN  IF loc.throws
                THEN Throw([kind |-> "SyntaxError", errors |-> <<>>]) /\ UNCHANGED <<pending, log>>
                ELSE /\ log' = log \o <<Effect("save", Cmd, "", <<>>), Effect("ajax", Cmd, "body", loc.path)>>
                     /\ pending' = pending \cup {[kind |-> "ajax", cmd |-> Cmd, arg |-> loc.path]}
                     /\ cpc' = "redirect"
                     /\ exc' = exc
    /\ UNCHANGED swapJobs
    /\ Frame

\* a variant without the return after the assignment
RedirectWithoutReturn ==
    /\ cpc = "redirect"
    /\ log' = IF HasAttribute(Attrs, "redirect")
              THEN Append(log, Effect("assign", Cmd, "window", GetAttribute(Attrs, "redirect")))
              ELSE log
    /\ cpc' = "refresh"
    /\ UNCHANGED <<swapJobs, exc, pending>>
    /\ Frame

\* lines 119-122
RedirectDirective ==
    /\ cpc = "redirect"
    /\ IF HasAttribute(Attrs, "redirect")
       THEN /\ log' = Append(log, Effect("assign", Cmd, "window", GetAttribute(Attrs, "redirect")))
            /\ cpc' = "done"
       ELSE /\ log' = log
            /\ cpc' = "refresh"
    /\ UNCHANGED <<swapJobs, exc, pending>>
    /\ Frame

\* a variant that reloads whatever the value of the attribute is
RefreshIgnoresValue ==
    /\ cpc = "refresh"
    /\ IF HasAttribute(Attrs, "refresh")
       THEN /\ log' = Append(log, Effect("reload", Cmd, "window", <<>>))
            /\ cpc' = "done"
       ELSE /\ log' = log
            /\ cpc' = "push-url"
    /\ UNCHANGED <<swapJobs, exc, pending>>
    /\ Frame

\* lines 123-126
RefreshDirective ==
    /\ cpc = "refresh"
    /\ IF HasAttribute(Attrs, "refresh") /\ GetAttribute(Attrs, "refresh") # <<"false">>
       THEN /\ log' = Append(log, Effect("reload", Cmd, "window", <<>>))
            /\ cpc' = "done"
       ELSE /\ log' = log
            /\ cpc' = "push-url"
    /\ UNCHANGED <<swapJobs, exc, pending>>
    /\ Frame

\* a variant that pushes the URL without saving the page first
PushUrlWithoutSave ==
    /\ cpc = "push-url"
    /\ IF ~HasAttribute(Attrs, "push-url")
       THEN cpc' = "replace-url" /\ UNCHANGED <<exc, log>>
       ELSE LET url == GetAttribute(Attrs, "push-url")
            IN  IF url = CrossOriginUrl
                THEN log' = log /\ Throw([kind |-> "SecurityError", errors |-> <<>>])
                ELSE /\ log' = Append(log, Effect("push", Cmd, "", url))
                     /\ cpc' = "replace-url"
                     /\ exc' = exc
    /\ UNCHANGED <<swapJobs, pending>>
    /\ Frame

\* lines 127-130; history.pushState throws on a URL of another origin
PushUrlDirective ==
    /\ cpc = "push-url"
    /\ IF ~HasAttribute(Attrs, "push-url")
       THEN cpc' = "replace-url" /\ UNCHANGED <<exc, log>>
       ELSE LET url == GetAttribute(Attrs, "push-url")
            IN  IF url = CrossOriginUrl
                THEN /\ log' = Append(log, Effect("save", Cmd, "", <<>>))
                     /\ Throw([kind |-> "SecurityError", errors |-> <<>>])
                ELSE /\ log' = log \o <<Effect("save", Cmd, "", <<>>), Effect("push", Cmd, "", url)>>
                     /\ cpc' = "replace-url"
                     /\ exc' = exc
    /\ UNCHANGED <<swapJobs, pending>>
    /\ Frame

\* lines 131-134
ReplaceUrlDirective ==
    /\ cpc = "replace-url"
    /\ log' = IF HasAttribute(Attrs, "replace-url")
              THEN log \o <<Effect("save", Cmd, "", <<>>),
                            Effect("replace", Cmd, "", GetAttribute(Attrs, "replace-url"))>>
              ELSE log
    /\ cpc' = "swap"
    /\ UNCHANGED <<swapJobs, exc, pending>>
    /\ Frame

\* the callbacks api.swap is given: those whose attribute is present
SwapCallbacks(attrs) ==
    {a \in {"trigger-after-swap", "trigger-after-settle"} : HasAttribute(attrs, a)}

\* the callbacks api.swap runs before it returns, by the swap and settle delays
\* of the swap specification: none, the after-swap one, or both
RunInSwap(attrs) ==
    {{}, SwapCallbacks(attrs) \cap {"trigger-after-swap"}, SwapCallbacks(attrs)}

\* the events of the callbacks S, after-swap first
CallbackEffects(S, attrs, cmd, found) ==
    (IF "trigger-after-swap" \in S
     THEN HandleTriggerAttribute(GetAttribute(attrs, "trigger-after-swap"), "trigger-after-swap", cmd, found)
     ELSE <<>>)
    \o (IF "trigger-after-settle" \in S
        THEN HandleTriggerAttribute(GetAttribute(attrs, "trigger-after-settle"), "trigger-after-settle", cmd, found)
        ELSE <<>>)

\* what a beforeSwap listener that rewrites the details puts in their target,
\* serverResponse and swapSpec fields
ListenerTarget == "other"
ListenerContent == {0}
ListenerSpec == <<"none">>

\* a variant that swaps what the job holds, whatever the listener wrote
SwapJobsAsBuilt ==
    /\ cpc = "swap"
    /\ IF swapJobs = <<>>
       THEN UNCHANGED <<pending, log>>
       ELSE LET job   == swapJobs[1]
                style == IF GetAttributeValue(Attrs, "swap") = <<>> THEN <<"outerHTML">>
                         ELSE GetAttributeValue(Attrs, "swap")
            IN  \E outcome \in {"canceled", "shouldSwapOff", "swap", "rewritten"} :
                  LET mutated == outcome = "rewritten"
                      before  == [Effect("beforeSwap", Cmd, job.targetEl, style)
                                    EXCEPT !.detail = <<outcome>>, !.content = job.content]
                      swap    == [Effect("swap", Cmd, job.targetEl,
                                        style)
                                   EXCEPT !.content = job.content,
                                          !.detail = GetAttributeValue(Attrs, "select")]
                  IN  IF outcome \in {"canceled", "shouldSwapOff"}
                      THEN log' = Append(log, before) /\ pending' = pending
                      ELSE \E now \in RunInSwap(Attrs), found \in BOOLEAN :
                             /\ log' = log \o <<before, swap>> \o CallbackEffects(now, Attrs, Cmd, found)
                             /\ pending' = pending \cup {[kind |-> a, cmd |-> Cmd, arg |-> GetAttribute(Attrs, a)] :
                                                           a \in SwapCallbacks(Attrs) \ now}
    /\ cpc' = "after"
    /\ UNCHANGED <<swapJobs, exc>>
    /\ Frame

\* lines 137-174: the beforeSwap event of the job, which a listener may cancel,
\* answer with shouldSwap = false, leave as it is, or use to rewrite the target,
\* serverResponse and swapSpec of the details; then api.swap with the details as
\* the listener left them
SwapJobs ==
    /\ cpc = "swap"
    /\ IF swapJobs = <<>>
       THEN UNCHANGED <<pending, log>>
       ELSE LET job   == swapJobs[1]
                style == IF GetAttributeValue(Attrs, "swap") = <<>> THEN <<"outerHTML">>
                         ELSE GetAttributeValue(Attrs, "swap")
            IN  \E outcome \in {"canceled", "shouldSwapOff", "swap", "rewritten"} :
                  LET mutated == outcome = "rewritten"
                      before  == [Effect("beforeSwap", Cmd, job.targetEl, style)
                                    EXCEPT !.detail = <<outcome>>, !.content = job.content]
                      swap    == [Effect("swap", Cmd, IF mutated THEN ListenerTarget ELSE job.targetEl,
                                        IF mutated THEN ListenerSpec ELSE style)
                                   EXCEPT !.content = IF mutated THEN ListenerContent ELSE job.content,
                                          !.detail = GetAttributeValue(Attrs, "select")]
                  IN  IF outcome \in {"canceled", "shouldSwapOff"}
                      THEN log' = Append(log, before) /\ pending' = pending
                      ELSE \E now \in RunInSwap(Attrs), found \in BOOLEAN :
                             /\ log' = log \o <<before, swap>> \o CallbackEffects(now, Attrs, Cmd, found)
                             /\ pending' = pending \cup {[kind |-> a, cmd |-> Cmd, arg |-> GetAttribute(Attrs, a)] :
                                                           a \in SwapCallbacks(Attrs) \ now}
    /\ cpc' = "after"
    /\ UNCHANGED <<swapJobs, exc>>
    /\ Frame

\* line 176
AfterCommand ==
    /\ cpc = "after"
    /\ log' = Append(log, Effect("afterServerCommand", Cmd, "context", <<>>))
    /\ cpc' = "done"
    /\ UNCHANGED <<swapJobs, exc, pending>>
    /\ Frame

\* a variant with the try block around the loop: the error is reported and the
\* rest of the batch is dropped
CatchErrorAroundLoop ==
    /\ cpc = "catch"
    /\ log' = Append(log, Effect("serverCommandError", Cmd, "body", <<exc.kind>> \o exc.errors))
    /\ exc' = NoException
    /\ cpc' = "done"
    /\ idx' = Len(topLevel)
    /\ UNCHANGED <<swapJobs, pending, text, pc, fragment, topLevel, returned>>

\* lines 178-183: the catch block reports the error on document.body
CatchError ==
    /\ cpc = "catch"
    /\ log' = Append(log, Effect("serverCommandError", Cmd, "body", <<exc.kind>> \o exc.errors))
    /\ exc' = NoException
    /\ cpc' = "done"
    /\ UNCHANGED <<swapJobs, pending>>
    /\ Frame

----------------------------------------------------------------------------
(* Callbacks of the collaborators, run as tasks of their own *)

\* no code of the extension is on the stack and no microtask of the loop is queued
Idle == pc = "returned" /\ cpc = "none"

\* lines 277-280: the fetch is over, push the path
AjaxThen ==
    /\ Idle
    /\ \E p \in pending :
          /\ p.kind = "ajax"
          /\ log' = log \o Late(<<Effect("push", p.cmd, "", p.arg)>>)
          /\ pending' = pending \ {p}
    /\ UNCHANGED <<text, pc, fragment, topLevel, idx, cpc, swapJobs, exc, returned>>

\* lines 164-169: the swap engine calls a callback it kept for later, the
\* after-swap one of a command before its after-settle one
SwapCallback ==
    /\ Idle
    /\ \E p \in pending, found \in BOOLEAN :
          /\ p.kind \in {"trigger-after-swap", "trigger-after-settle"}
          /\ p.kind = "trigger-after-settle" =>
                ~\E q \in pending : q.cmd = p.cmd /\ q.kind = "trigger-after-swap"
          /\ log' = log \o Late(HandleTriggerAttribute(p.arg, p.kind, p.cmd, found))
          /\ pending' = pending \ {p}
    /\ UNCHANGED <<text, pc, fragment, topLevel, idx, cpc, swapJobs, exc, returned>>

Next ==
    \/ ReturnEarly
    \/ StartLoop
    \/ StripAndReturn
    \/ ResumeLoop
    \/ BeforeCommand
    \/ Validate
    \/ BuildSwapJob
    \/ TriggerDirective
    \/ LocationDirective
    \/ RedirectDirective
    \/ RefreshDirective
    \/ PushUrlDirective
    \/ ReplaceUrlDirective
    \/ SwapJobs
    \/ AfterCommand
    \/ CatchError
    \/ AjaxThen
    \/ SwapCallback

Spec == Init /\ [][Next]_vars

\* the steps of the extension's own code: the synchronous part of
\* transformResponse and the microtasks of its loop, which the event loop runs
\* to completion once they are queued
RunToCompletion ==
    \/ ReturnEarly
    \/ StartLoop
    \/ StripAndReturn
    \/ ResumeLoop
    \/ BeforeCommand
    \/ Validate
    \/ BuildSwapJob
    \/ TriggerDirective
    \/ LocationDirective
    \/ RedirectDirective
    \/ RefreshDirective
    \/ PushUrlDirective
    \/ ReplaceUrlDirective
    \/ SwapJobs
    \/ AfterCommand
    \/ CatchError

\* the calls the fair runs start from: the batches of two commands, and a text
\* without markup
LiveInit ==
    /\ Init
    /\ text \in {[nodes |-> f, canonical |-> TRUE] : f \in TwoCommands \cup {<<>>}}

\* the extension's code runs whenever it can; nothing obliges a fetch to complete
\* or the swap engine to call a callback back
FairSpec == LiveInit /\ [][Next]_vars /\ WF_vars(RunToCompletion)

----------------------------------------------------------------------------
(* Properties *)

\* the positions of the log
Positions == 1..Len(log)

\* the command tags of the text that are children of the fragment root, and the nested ones
TopLevelTags == {i \in 1..Len(text.nodes) : text.nodes[i].tag = "htmx" /\ text.nodes[i].parent = 0}
NestedTags == {i \in 1..Len(text.nodes) : text.nodes[i].tag = "htmx" /\ text.nodes[i].parent # 0}

\* the positions of the effects of command c, and those of one of the kinds K
EffectsOf(c) == {i \in Positions : log[i].cmd = c}
EffectsOfKind(c, K) == {i \in Positions : log[i].cmd = c /\ log[i].kind \in K}

\* transformResponse has returned by position i of the log
ReturnedBefore(i) == \E j \in 1..(i - 1) : log[j].kind = "return"

\* C1: no effect of a command of the fragment, the first one included, occurs before
\* transformResponse has returned the sanitized fragment.
C1_NoEffectBeforeReturn ==
    \A i \in Positions : log[i].cmd # 0 => ReturnedBefore(i)

\* C2: the string transformResponse returns contains no command tag, top-level or
\* nested, whatever became of the commands.
C2_NoCommandTagReturned ==
    pc = "returned" => \A i \in returned.kept : text.nodes[i].tag # "htmx"

\* a fragment with a top-level and a nested command tag has been returned with one of
\* its nodes left, after a command of it ended in an error
C2_Witness ==
    /\ pc = "returned"
    /\ TopLevelTags # {} /\ NestedTags # {}
    /\ returned.kept # {}
    /\ \E i \in Positions : log[i].kind = "serverCommandError"

\* C3: for a text that is empty or has no command tag, transformResponse returns the
\* text as it came and starts nothing: no event, swap, navigation or history call.
C3_FastPathIdentity ==
    (\A i \in 1..Len(text.nodes) : text.nodes[i].tag # "htmx") =>
        /\ \A i \in Positions : log[i].kind = "return"
        /\ pending = {} /\ topLevel = <<>> /\ cpc = "none"
        /\ pc \in {"call", "returned"}
        /\ pc = "returned" => returned = [kept |-> 1..Len(text.nodes), canonical |-> text.canonical]

\* a text without command tag, not spelled the way innerHTML spells it, has been returned
C3_Witness ==
    /\ pc = "returned"
    /\ text.nodes # <<>> /\ ~text.canonical
    /\ \A i \in 1..Len(text.nodes) : text.nodes[i].tag # "htmx"

\* the loop is over: every command it was given has left processCommandFromElement
LoopOver == pc = "returned" /\ cpc = "none"

\* the commands whose before event was dispatched, in the order of the log
RECURSIVE StartedFrom(_)
StartedFrom(i) ==
    IF i > Len(log) THEN <<>>
    ELSE (IF log[i].kind = "beforeServerCommand" THEN <<log[i].cmd>> ELSE <<>>) \o StartedFrom(i + 1)

Started == StartedFrom(1)

\* the top-level command tags of the text, in document order
RECURSIVE Ascending(_, _)
Ascending(S, i) ==
    IF i > Len(text.nodes) THEN <<>>
    ELSE (IF i \in S THEN <<i>> ELSE <<>>) \o Ascending(S, i + 1)

\* C4: the commands handed to the executor are exactly the command tags that are
\* children of the fragment root, each once; a nested command tag is never executed.
C4_OnlyTopLevelExecuted ==
    /\ \A i \in Positions : log[i].cmd # 0 => log[i].cmd \in TopLevelTags
    /\ \A p \in pending : p.cmd \in TopLevelTags
    /\ \A c \in TopLevelTags : Cardinality(EffectsOfKind(c, {"beforeServerCommand"})) <= 1
    /\ LoopOver => Started = Ascending(TopLevelTags, 1)

\* the loop is over for a fragment with a command tag nested in a top-level command
\* tag, itself with a command tag nested in it
C4_Witness ==
    /\ LoopOver
    /\ \E a \in TopLevelTags, b, c \in NestedTags :
          text.nodes[b].parent = a /\ text.nodes[c].parent = b
    /\ Started # <<>>

\* the effect at position i is a step of processCommandFromElement itself, not of a
\* callback a collaborator runs later
Synchronous(i) == log[i].cmd # 0 /\ ~log[i].late

\* C5: the top-level commands are processed in document order, one at a time: every
\* synchronous step of a command happens before the before event of the next one.
C5_DocumentOrder ==
    \A j \in Positions : log[j].kind = "beforeServerCommand" =>
        \A i \in Positions : Synchronous(i) =>
            /\ log[i].cmd < log[j].cmd => i < j
            /\ log[i].cmd >= log[j].cmd => i >= j

\* a command was swapped in and ended with its after event, and the next command of
\* the fragment has begun
C5_Witness ==
    \E i, j, k \in Positions :
        /\ i < j /\ j < k
        /\ log[i].kind = "swap" /\ log[j].kind = "afterServerCommand" /\ log[j].cmd = log[i].cmd
        /\ log[k].kind = "beforeServerCommand" /\ log[k].cmd > log[i].cmd

\* the three ways a tag fails validation, read off its attribute names
FailsValidation(attrs) ==
    \/ \A a \in DOMAIN attrs : a \notin VALID_COMMAND_ATTRIBUTES
    \/ \E a \in DOMAIN attrs : a \notin VALID_COMMAND_ATTRIBUTES
    \/ (("swap" \in DOMAIN attrs) \/ ("select" \in DOMAIN attrs)) /\ "target" \notin DOMAIN attrs

\* the before event of command c was dispatched and not canceled
Proceeded(c) ==
    \E i \in Positions : log[i].cmd = c /\ log[i].kind = "beforeServerCommand" /\ log[i].arg = <<>>

\* processCommandFromElement has returned for command c
Finished(c) ==
    \E k \in 1..Len(topLevel) :
        topLevel[k] = c /\ (idx > k \/ (idx = k /\ cpc = "done"))

\* C6: a command that fails validation has no side effect of its own (no swap job, no
\* beforeSwap or swap, no trigger, navigation, redirect, reload or history call, no
\* after event) and exactly one serverCommandError event.
C6_InvalidCommandHasNoEffect ==
    \A c \in TopLevelTags : FailsValidation(text.nodes[c].attrs) /\ Proceeded(c) =>
        /\ \A i \in EffectsOf(c) : log[i].kind \in {"beforeServerCommand", "serverCommandError"}
        /\ \A p \in pending : p.cmd # c
        /\ (idx \in 1..Len(topLevel) /\ topLevel[idx] = c) => swapJobs = <<>>
        /\ Cardinality(EffectsOfKind(c, {"serverCommandError"})) <= 1
        /\ Finished(c) => Cardinality(EffectsOfKind(c, {"serverCommandError"})) = 1

\* a command with swap and a trigger but no target has been processed to its end
C6_Witness ==
    \E c \in TopLevelTags :
        /\ DOMAIN text.nodes[c].attrs = {"swap", "trigger"}
        /\ Proceeded(c) /\ Finished(c)

\* the command tag c is valid and its before event was not canceled
ValidAndProceeded(c) == ~FailsValidation(text.nodes[c].attrs) /\ Proceeded(c)

\* the synchronous effects of command c among the kinds K
SyncEffects(c, K) == {i \in EffectsOfKind(c, K) : ~log[i].late}

TriggerKinds == {"trigger", "trigger-after-swap", "trigger-after-settle"}

\* C7 as stated: a valid, non-canceled command with a redirect attribute assigns the
\* browser location exactly once and executes no swap and no trigger, whatever other
\* directive attributes the tag has.
C7_RedirectOnly ==
    \A c \in TopLevelTags :
        ("redirect" \in DOMAIN text.nodes[c].attrs /\ ValidAndProceeded(c)) =>
            /\ Finished(c) => Cardinality(EffectsOfKind(c, {"assign"})) = 1
            /\ EffectsOfKind(c, {"beforeSwap", "swap"}) = {}
            /\ EffectsOfKind(c, TriggerKinds) = {}

\* the target lookup or the parsing of the location throws for these attributes
ThrowsBeforeRedirect(attrs) ==
    \/ "target" \in DOMAIN attrs /\ attrs["target"] = InvalidSelector
    \/ "location" \in DOMAIN attrs /\ attrs["location"] = LocationMalformed

\* C7 as amended: a valid, non-canceled command with a redirect attribute assigns the
\* browser location at most once, exactly once unless the target lookup or the location
\* parsing throws first; it executes no swap, no reload, no push-url or replace-url and
\* has no after event; its trigger directive, when present, runs before the assignment.
C7_RedirectStopsCommand ==
    \A c \in TopLevelTags :
        ("redirect" \in DOMAIN text.nodes[c].attrs /\ ValidAndProceeded(c)) =>
            /\ Cardinality(EffectsOfKind(c, {"assign"})) <= 1
            /\ EffectsOfKind(c, {"beforeSwap", "swap", "reload", "replace", "afterServerCommand",
                                 "trigger-after-swap", "trigger-after-settle"}) = {}
            /\ SyncEffects(c, {"push"}) = {}
            /\ Cardinality(EffectsOfKind(c, {"save"})) <= 1
            /\ Finished(c) =>
                  IF ThrowsBeforeRedirect(text.nodes[c].attrs)
                  THEN /\ EffectsOfKind(c, {"assign"}) = {}
                       /\ Cardinality(EffectsOfKind(c, {"serverCommandError"})) = 1
                  ELSE /\ Cardinality(EffectsOfKind(c, {"assign"})) = 1
                       /\ EffectsOfKind(c, {"serverCommandError"}) = {}
            /\ \A i \in EffectsOfKind(c, {"assign"}) :
                  /\ log[i].arg = text.nodes[c].attrs["redirect"]
                  /\ "trigger" \in DOMAIN text.nodes[c].attrs =>
                        \E j \in EffectsOfKind(c, {"trigger"}) : j < i

\* a command with redirect and push-url has been processed to its end, and one with
\* redirect and a trigger
C7_Witness ==
    \E c \in TopLevelTags :
        /\ DOMAIN text.nodes[c].attrs \in {{"redirect", "push-url"}, {"redirect", "trigger"}}
        /\ ValidAndProceeded(c) /\ Finished(c)
        /\ EffectsOfKind(c, {"assign"}) # {}

\* a step of the command throws for these attributes: validation, the target lookup,
\* the parsing of the location, or the push of a URL of another origin
Raises(attrs) ==
    \/ FailsValidation(attrs)
    \/ ThrowsBeforeRedirect(attrs)
    \/ /\ "push-url" \in DOMAIN attrs /\ attrs["push-url"] = CrossOriginUrl
       /\ "redirect" \notin DOMAIN attrs
       /\ ~("refresh" \in DOMAIN attrs /\ attrs["refresh"] # <<"false">>)

\* C8: an exception raised while a command is processed is caught at that command and
\* reported as exactly one serverCommandError event on the document root, with the
\* error and the command element; every later command of the batch is still processed
\* from its before event.
C8_ErrorsIsolatedPerCommand ==
    /\ exc # NoException => cpc = "catch"
    /\ \A i \in Positions : log[i].kind = "serverCommandError" =>
          /\ log[i].on = "body" /\ log[i].cmd \in TopLevelTags
          /\ log[i].arg # <<>>
          /\ log[i].arg[1] \in {"NoCommandAttribute", "ValidationErrors", "SyntaxError", "SecurityError"}
          /\ LoopOver => \A d \in TopLevelTags : d > log[i].cmd =>
                \E j \in Positions : j > i /\ log[j].kind = "beforeServerCommand" /\ log[j].cmd = d
    /\ \A c \in TopLevelTags :
          /\ Cardinality(EffectsOfKind(c, {"serverCommandError"})) <= 1
          /\ (Proceeded(c) /\ Finished(c)) =>
                Cardinality(EffectsOfKind(c, {"serverCommandError"})) =
                    IF Raises(text.nodes[c].attrs) THEN 1 ELSE 0
          /\ LoopOver => EffectsOfKind(c, {"beforeServerCommand"}) # {}

\* the parsing of a location threw in one command and a later command of the same
\* fragment ran to its after event
C8_Witness ==
    \E i, j \in Positions :
        /\ i < j
        /\ log[i].kind = "serverCommandError" /\ log[i].arg = <<"SyntaxError">>
        /\ log[j].kind = "afterServerCommand" /\ log[j].cmd > log[i].cmd

CommasUpTo(v, n) == Cardinality({p \in 1..n : v[p] = ","})

\* the k-th of the segments the commas cut v into: the characters after the
\* (k-1)-th comma and before the k-th one
Segment(v, k) ==
    LET from == CHOOSE p \in 0..Len(v) : (p = 0 \/ v[p] = ",") /\ CommasUpTo(v, p) = k - 1
        to   == CHOOSE p \in 1..(Len(v) + 1) :
                    (p = Len(v) + 1 \/ v[p] = ",") /\ CommasUpTo(v, p - 1) = k - 1
    IN  SubSeq(v, from + 1, to - 1)

\* name is seg without the blanks around it
IsTrimmed(name, seg) ==
    /\ name = <<>> \/ (name[1] # " " /\ name[Len(name)] # " ")
    /\ \E a, b \in 0..Len(seg) :
          /\ a + b <= Len(seg)
          /\ name = SubSeq(seg, a + 1, Len(seg) - b)
          /\ \A p \in 1..a : seg[p] = " "
          /\ \A p \in (Len(seg) - b + 1)..Len(seg) : seg[p] = " "

\* the position in the log of the k-th event the trigger attribute of command c dispatched
TriggerEvent(c, k) ==
    CHOOSE i \in EffectsOfKind(c, {"trigger"}) :
        Cardinality({j \in EffectsOfKind(c, {"trigger"}) : j < i}) = k - 1

\* the trigger directive of command c has run
TriggerHasRun(c) ==
    /\ "trigger" \in DOMAIN text.nodes[c].attrs
    /\ ValidAndProceeded(c) /\ Finished(c)
    /\ ~("target" \in DOMAIN text.nodes[c].attrs /\ text.nodes[c].attrs["target"] = InvalidSelector)

\* C10: for a trigger value that is not JSON and has k comma-separated names, exactly k
\* events are dispatched, left to right, each on the page root, each named by its
\* segment without the blanks around it, each without detail.
C10_CommaSeparatedTrigger ==
    \A c \in TopLevelTags : TriggerHasRun(c) =>
        LET v == text.nodes[c].attrs["trigger"]
            k == CommasUpTo(v, Len(v)) + 1
        IN  ~JSONParse(v).ok =>
               /\ Cardinality(EffectsOfKind(c, {"trigger"})) = k
               /\ \A n \in 1..k :
                     LET ev == log[TriggerEvent(c, n)]
                     IN  /\ ev.on = "body"
                         /\ ev.detail = <<>>
                         /\ ~ev.late
                         /\ IsTrimmed(ev.arg, Segment(v, n))

\* the trigger of a value with a comma and a blank after a name has run
C10_Witness ==
    \E c \in TopLevelTags :
        /\ TriggerHasRun(c)
        /\ \E v \in {text.nodes[c].attrs["trigger"]} :
              /\ Len(v) = 3 /\ v[1] = "a" /\ v[2] = " " /\ v[3] = ","
              /\ Cardinality(EffectsOfKind(c, {"trigger"})) = 2

\* the entries of the trigger value of command c, as JSON.parse gives them
EntriesOf(c) == JSONParse(text.nodes[c].attrs["trigger"]).entries

\* the trigger value of command c is a JSON object
TriggerIsObject(c) ==
    LET v == text.nodes[c].attrs["trigger"]
    IN  JSONParse(v).ok /\ v # <<>> /\ v[1] = "{"

\* the detail of an entry is an object with a target key
HasTargetKey(entry) ==
    entry.value.type = "object" /\ \E k \in 1..Len(entry.value.members) : entry.value.members[k].key = "target"

\* the value an entry stores under target
TargetText(entry) ==
    LET k == CHOOSE k \in 1..Len(entry.value.members) : entry.value.members[k].key = "target"
    IN  entry.value.members[k].value.text

\* a target of the trigger value of command c is a selector the engine rejects
HasRejectedTarget(c) ==
    \E n \in 1..Len(EntriesOf(c)) :
        HasTargetKey(EntriesOf(c)[n]) /\ <<TargetText(EntriesOf(c)[n])>> = InvalidSelector

\* C11, on the values none of whose targets the selector engine rejects:
\* for a trigger value that is a JSON object with n entries, exactly n events are
\* dispatched, the k-th named by the k-th entry; when the detail of the entry is an
\* object with a target key, the event is dispatched on the element the target resolves
\* to, or on the page root after a warning, and the detail dispatched has no target key.
C11_EntryEventsWithoutTarget ==
    \A c \in TopLevelTags : (TriggerHasRun(c) /\ TriggerIsObject(c) /\ ~HasRejectedTarget(c)) =>
        /\ Cardinality(EffectsOfKind(c, {"trigger"})) = Len(EntriesOf(c))
        /\ \A n \in 1..Len(EntriesOf(c)) :
              LET ev    == log[TriggerEvent(c, n)]
                  entry == EntriesOf(c)[n]
              IN  /\ ev.arg = <<entry.key>>
                  /\ HasTargetKey(entry) =>
                        /\ \A k \in 1..Len(ev.detail) : ev.detail[k] # "target"
                        /\ \/ ev.on = TargetText(entry)
                           \/ /\ ev.on = "body"
                              /\ \E w \in EffectsOfKind(c, {"warnTarget"}) : w < TriggerEvent(c, n)

\* the refresh attribute of these attributes asks for a reload
Reloading(attrs) == "refresh" \in DOMAIN attrs /\ attrs["refresh"] # <<"false">>

\* C12 as stated: a valid, non-canceled command without redirect reloads the page if
\* and only if it has a refresh attribute whose value is not "false".
C12_ReloadIffRefresh ==
    \A c \in TopLevelTags :
        ("redirect" \notin DOMAIN text.nodes[c].attrs /\ ValidAndProceeded(c) /\ Finished(c)) =>
            (EffectsOfKind(c, {"reload"}) # {} <=> Reloading(text.nodes[c].attrs))

\* C12 as amended: a valid, non-canceled command without redirect reloads the page, once,
\* if and only if refresh is present with a value other than "false" and neither the
\* target lookup nor the location parsing has thrown (then it ends in one
\* serverCommandError); a reloading refresh leaves no push-url, replace-url, swap or
\* after event; with refresh absent or "false" the push, the replace, the beforeSwap of
\* a job and the after event all occur.
C12_ReloadUnlessThrown ==
    \A c \in TopLevelTags :
        ("redirect" \notin DOMAIN text.nodes[c].attrs /\ ValidAndProceeded(c)) =>
            LET attrs == text.nodes[c].attrs
            IN  /\ Cardinality(EffectsOfKind(c, {"reload"})) <= 1
                /\ Finished(c) =>
                      /\ EffectsOfKind(c, {"reload"}) # {}
                            <=> (Reloading(attrs) /\ ~ThrowsBeforeRedirect(attrs))
                      /\ ThrowsBeforeRedirect(attrs) =>
                            Cardinality(EffectsOfKind(c, {"serverCommandError"})) = 1
                /\ Reloading(attrs) =>
                      /\ EffectsOfKind(c, {"replace", "beforeSwap", "swap", "afterServerCommand",
                                           "trigger-after-swap", "trigger-after-settle"}) = {}
                      /\ SyncEffects(c, {"push"}) = {}
                /\ (~Reloading(attrs) /\ Finished(c) /\ ~Raises(attrs)) =>
                      /\ "push-url" \in DOMAIN attrs =>
                            /\ Cardinality(SyncEffects(c, {"push"})) = 1
                            /\ \A i \in SyncEffects(c, {"push"}) : log[i].arg = attrs["push-url"]
                      /\ "replace-url" \in DOMAIN attrs =>
                            Cardinality(EffectsOfKind(c, {"replace"})) = 1
                      /\ ("target" \in DOMAIN attrs /\ attrs["target"] # <<>>) =>
                            Cardinality(EffectsOfKind(c, {"beforeSwap", "targetError"})) = 1
                      /\ Cardinality(EffectsOfKind(c, {"afterServerCommand"})) = 1

\* a command with an empty refresh and a push-url has reloaded the page and returned
C12_Witness ==
    \E c \in TopLevelTags :
        /\ DOMAIN text.nodes[c].attrs = {"refresh", "push-url"}
        /\ text.nodes[c].attrs["refresh"] = <<>>
        /\ Finished(c)
        /\ EffectsOfKind(c, {"reload"}) # {}

\* C13 as stated: every history push and every history replace, the push of a completed
\* location fetch included, comes after a history save with no other push or replace
\* between that save and it.
C13_SaveImmediatelyBeforeMutation ==
    \A i \in Positions : log[i].kind \in {"push", "replace"} =>
        \E j \in 1..(i - 1) :
            /\ log[j].kind = "save"
            /\ \A k \in (j + 1)..(i - 1) : log[k].kind \notin {"push", "replace"}

\* C13 as amended: the push of push-url and the replace of replace-url come right after
\* a save of the same command; the save of the location handler comes right before its
\* fetch, and the push of a completed fetch comes after that fetch, with the path
\* fetched.
C13_SaveBeforeMutationOrFetch ==
    \A i \in Positions :
        /\ (log[i].kind \in {"push", "replace"} /\ ~log[i].late) =>
              i > 1 /\ log[i - 1].kind = "save" /\ log[i - 1].cmd = log[i].cmd
        /\ log[i].kind = "ajax" =>
              i > 1 /\ log[i - 1].kind = "save" /\ log[i - 1].cmd = log[i].cmd
        /\ (log[i].kind = "push" /\ log[i].late) =>
              \E j \in 1..(i - 1) :
                  log[j].kind = "ajax" /\ log[j].cmd = log[i].cmd /\ log[j].arg = log[i].arg

\* the fetch of a location has completed after a push-url of the batch pushed its URL
C13_Witness ==
    \E i, j \in Positions :
        /\ j < i
        /\ log[i].kind = "push" /\ log[i].late
        /\ log[j].kind = "push" /\ ~log[j].late

\* the positions of the validation errors reported for command c
ValidationErrorsOf(c) ==
    {i \in EffectsOfKind(c, {"serverCommandError"}) :
        log[i].arg[1] \in {"NoCommandAttribute", "ValidationErrors"}}

\* how many of the violations reported at position i are of kind v
Violations(i, v) == Cardinality({k \in 2..Len(log[i].arg) : log[i].arg[k] = v})

\* C14: validation of a tag succeeds if and only if at least one of its attributes is
\* recognized, all of them are, and target is present whenever swap or select is; when
\* it fails on a tag with a recognized attribute, the error carries one violation for
\* each unrecognized attribute, one more when swap or select lacks target, and no other.
C14_ValidatorVerdict ==
    \A c \in TopLevelTags : (Proceeded(c) /\ Finished(c)) =>
        LET names      == DOMAIN text.nodes[c].attrs
            recognized == names \cap VALID_COMMAND_ATTRIBUTES
            unknown    == names \ VALID_COMMAND_ATTRIBUTES
            lacks      == names \cap {"swap", "select"} # {} /\ "target" \notin names
            succeeds   == recognized # {} /\ unknown = {} /\ ~lacks
        IN  /\ ValidationErrorsOf(c) = {} <=> succeeds
            /\ Cardinality(ValidationErrorsOf(c)) <= 1
            /\ \A i \in ValidationErrorsOf(c) :
                  IF recognized = {} THEN log[i].arg = <<"NoCommandAttribute">>
                  ELSE /\ log[i].arg[1] = "ValidationErrors"
                       /\ Violations(i, "UnknownAttribute") = Cardinality(unknown)
                       /\ Violations(i, "SwapWithoutTarget") = (IF lacks THEN 1 ELSE 0)
                       /\ Len(log[i].arg) = 1 + Cardinality(unknown) + (IF lacks THEN 1 ELSE 0)

\* a tag with two unknown attributes and a swap without target has been validated
C14_Witness ==
    \E c \in TopLevelTags :
        /\ DOMAIN text.nodes[c].attrs = {"id", "hx-get", "swap"}
        /\ Finished(c)
        /\ ValidationErrorsOf(c) # {}

\* command c is being processed and its swap job step is over without a throw
PastGather(c) ==
    /\ idx \in 1..Len(topLevel) /\ topLevel[idx] = c
    /\ cpc \in {"trigger", "location", "redirect", "refresh", "push-url", "replace-url", "swap", "after"}

\* C15: once the swap job step of a valid, non-canceled command is over, a command with a
\* target attribute, whatever its value, has either exactly one swap job made of its inner
\* content, or no job and a target error event on the context element; a command without
\* target has no job.
C15_TargetGivesJobOrError ==
    \A c \in TopLevelTags : (ValidAndProceeded(c) /\ PastGather(c)) =>
        IF "target" \in DOMAIN text.nodes[c].attrs
        THEN \/ /\ Len(swapJobs) = 1
                /\ swapJobs[1].content = InnerHTML(c, fragment)
                /\ EffectsOfKind(c, {"targetError"}) = {}
             \/ /\ swapJobs = <<>>
                /\ \E i \in EffectsOfKind(c, {"targetError"}) : log[i].on = "context"
        ELSE swapJobs = <<>> /\ EffectsOfKind(c, {"targetError"}) = {}

\* the swap style of command c: its swap attribute, outerHTML when absent or empty
StyleOf(c) ==
    IF "swap" \in DOMAIN text.nodes[c].attrs /\ text.nodes[c].attrs["swap"] # <<>>
    THEN text.nodes[c].attrs["swap"] ELSE <<"outerHTML">>

\* C16: a command dispatches at most one beforeSwap event, for its swap job; the swap
\* operation is invoked at most once, right after that event, if and only if the
\* listener neither canceled the event nor turned shouldSwap off; it is given the target,
\* the content and the swap specification of the job, or those the listener wrote in the
\* details; whatever the listener did, the command ends with one afterServerCommand
\* event and without serverCommandError.
C16_SwapIffAllowed ==
    \A c \in TopLevelTags :
        /\ Cardinality(EffectsOfKind(c, {"beforeSwap"})) <= 1
        /\ Cardinality(EffectsOfKind(c, {"swap"})) <= 1
        /\ \A j \in EffectsOfKind(c, {"swap"}) : j > 1 /\ log[j - 1].kind = "beforeSwap"
        /\ \A i \in EffectsOfKind(c, {"beforeSwap"}) :
              /\ (i < Len(log) /\ log[i + 1].kind = "swap" /\ log[i + 1].cmd = c)
                    <=> log[i].detail[1] \in {"swap", "rewritten"}
              /\ log[i].detail[1] \in {"swap", "rewritten"} =>
                    IF log[i].detail[1] = "rewritten"
                    THEN /\ log[i + 1].on = ListenerTarget
                         /\ log[i + 1].content = ListenerContent
                         /\ log[i + 1].arg = ListenerSpec
                    ELSE /\ log[i + 1].on = log[i].on
                         /\ log[i + 1].content = log[i].content
                         /\ log[i + 1].arg = StyleOf(c)
              /\ EffectsOfKind(c, {"serverCommandError"}) = {}
              /\ Finished(c) => Cardinality(EffectsOfKind(c, {"afterServerCommand"})) = 1

\* a listener has rewritten the details of a beforeSwap event and the swap was made
C16_Witness ==
    \E i \in Positions :
        /\ log[i].kind = "beforeSwap" /\ log[i].detail = <<"rewritten">>
        /\ Finished(log[i].cmd)

\* a listener canceled the before event of command c
Canceled(c) ==
    \E i \in Positions :
        log[i].cmd = c /\ log[i].kind = "beforeServerCommand" /\ log[i].arg = <<"canceled">>

\* C17: a command whose before event a listener canceled has no other effect than that
\* event, whether its tag is valid or not: no error event, no directive, no swap job, no
\* swap, no callback left with the swap engine, no after event; and every later
\* top-level command of the batch gets its own before event.
C17_CancelEndsCommandOnly ==
    \A c \in TopLevelTags : Canceled(c) =>
        /\ Cardinality(EffectsOf(c)) = 1
        /\ \A p \in pending : p.cmd # c
        /\ (idx \in 1..Len(topLevel) /\ topLevel[idx] = c) =>
              cpc = "done" /\ swapJobs = <<>> /\ exc = NoException
        /\ LoopOver => \A d \in TopLevelTags : d > c =>
              \E j \in EffectsOfKind(d, {"beforeServerCommand"}) :
                  \A i \in EffectsOf(c) : i < j

\* the before event of a tag that would fail validation was canceled, and a later
\* command of the same fragment ran to its after event
C17_Witness ==
    \E c, d \in TopLevelTags :
        /\ c < d
        /\ Canceled(c) /\ FailsValidation(text.nodes[c].attrs)
        /\ EffectsOfKind(d, {"afterServerCommand"}) # {}

\* the positions of the terminal outcomes of command c: its before event canceled, an
\* error event, a redirect, a reload, or its after event
TerminalOutcomes(c) ==
    {i \in EffectsOf(c) :
        \/ log[i].kind \in {"serverCommandError", "assign", "reload", "afterServerCommand"}
        \/ log[i].kind = "beforeServerCommand" /\ log[i].arg = <<"canceled">>}

\* transformResponse has returned and every top-level command has one terminal outcome
AllTerminated ==
    /\ pc = "returned"
    /\ \A c \in TopLevelTags : Cardinality(TerminalOutcomes(c)) = 1

\* C18: when the extension's own code is run whenever it can, and whether or not any
\* fetch completes or any swap callback is called back, from some point on
\* transformResponse has returned and every top-level command of the batch has exactly
\* one terminal outcome (the log only grows, so none ever has two).
C18_EveryCommandTerminates == <>[]AllTerminated

\* the second command of a batch has its terminal outcome while the fetch of the first
\* command's location has not completed
C18_Witness ==
    /\ AllTerminated
    /\ Cardinality(TopLevelTags) = 2
    /\ \E p \in pending : p.kind = "ajax" /\ p.cmd = 1

\* the events of the trigger of command c that the catch branch dispatches: on the page
\* root, without detail, named by a comma-separated segment of the raw value
FallbackEvents(c) ==
    LET v == text.nodes[c].attrs["trigger"]
    IN  {i \in EffectsOfKind(c, {"trigger"}) :
            /\ log[i].on = "body" /\ log[i].detail = <<>>
            /\ \E n \in 1..(CommasUpTo(v, Len(v)) + 1) : IsTrimmed(log[i].arg, Segment(v, n))}

\* C19: the trigger dispatcher uses its comma-separated fallback if and only if the
\* value does not parse as JSON: for a value that parses, no event named by a segment
\* of the comma split of the raw text is dispatched.
C19_FallbackOnlyWhenNotJSON ==
    \A c \in TopLevelTags : TriggerHasRun(c) =>
        (FallbackEvents(c) # {} <=> ~JSONParse(text.nodes[c].attrs["trigger"]).ok)

\* C20: the content of a swap job handed to the swap engine, when no listener replaced
\* it, holds no command tag, for the first top-level command of a fragment as for the
\* later ones.
C20_NoCommandTagSwapped ==
    \A i \in Positions : (log[i].kind = "swap" /\ log[i].content # ListenerContent) =>
        \A n \in log[i].content : text.nodes[n].tag # "htmx"

====
